---- MODULE Spec2Model ----
(***************************************************************************)
(* react-router-typed-object: the route map built by inferRouteObject, the *)
(* path generator `get` of every entry, its `useParams` hook, and the      *)
(* `navigate` that bindRouter and createRouter attach to it.               *)
(*                                                                         *)
(* JavaScript strings are sequences of one-character strings, so that      *)
(* split, startsWith, slice, replace and decodeURIComponent are computed   *)
(* character by character as the engine computes them.  JavaScript objects *)
(* are sequences of <<key, value>> pairs in insertion order.               *)
(***************************************************************************)
EXTENDS Integers, Sequences, FiniteSets, TLC

(***************************************************************************)
(* String primitives used by the source.                                   *)
(***************************************************************************)

\* s.startsWith(p)
startsWith(s, p) == Len(s) >= Len(p) /\ SubSeq(s, 1, Len(p)) = p

\* s.endsWith(p)
endsWith(s, p) == Len(s) >= Len(p) /\ SubSeq(s, Len(s) - Len(p) + 1, Len(s)) = p

\* s.slice(n), n >= 0
slice(s, n) == SubSeq(s, n + 1, Len(s))

\* s.slice(0, -1)
sliceLast(s) == SubSeq(s, 1, Len(s) - 1)

\* position (1-based) of the first occurrence of sub in s, 0 when there is none
indexOf(s, sub) ==
  LET hits == {i \in 1..(Len(s) - Len(sub) + 1) : SubSeq(s, i, i + Len(sub) - 1) = sub}
  IN IF hits = {} THEN 0 ELSE CHOOSE i \in hits : \A j \in hits : i <= j

\* s.split(sep) for a one-character separator
RECURSIVE split(_, _)
split(s, sep) ==
  LET i == indexOf(s, <<sep>>)
  IN IF i = 0 THEN <<s>>
     ELSE <<SubSeq(s, 1, i - 1)>> \o split(SubSeq(s, i + 1, Len(s)), sep)

\* s.replace(sub, rep) with a string pattern: only the first occurrence is
\* replaced.  (No string of the model contains "$", so rep is inserted as is.)
replace(s, sub, rep) ==
  LET i == indexOf(s, sub)
  IN IF i = 0 THEN s
     ELSE SubSeq(s, 1, i - 1) \o rep \o SubSeq(s, i + Len(sub), Len(s))

\* parts.join(sep)
RECURSIVE join(_, _)
join(parts, sep) ==
  IF Len(parts) = 0 THEN <<>>
  ELSE IF Len(parts) = 1 THEN parts[1]
  ELSE parts[1] \o <<sep>> \o join(Tail(parts), sep)

(***************************************************************************)
(* Objects: sequences of <<key, value>> pairs, keys unique, insertion      *)
(* order kept.  undefined is a value distinct from every string.           *)
(***************************************************************************)
undefined == <<"undefined">>

EmptyString == <<>>

keysOf(o) == {o[i][1] : i \in DOMAIN o}

\* k in o
hasKey(o, k) == \E i \in DOMAIN o : o[i][1] = k

\* o[k]
lookup(o, k) ==
  IF hasKey(o, k) THEN o[CHOOSE i \in DOMAIN o : o[i][1] = k][2] ELSE undefined

\* o[k] = v
assign(o, k, v) ==
  IF hasKey(o, k)
  THEN [i \in DOMAIN o |-> IF o[i][1] = k THEN <<k, v>> ELSE o[i]]
  ELSE Append(o, <<k, v>>)

\* { ...a, ...b }
RECURSIVE spread(_, _)
spread(a, b) ==
  IF Len(b) = 0 THEN a ELSE spread(assign(a, b[1][1], b[1][2]), Tail(b))

\* deep equality of two objects, key order ignored (vitest's toEqual on
\* records of defined values)
sameRecord(a, b) ==
  /\ keysOf(a) = keysOf(b)
  /\ \A k \in keysOf(a) : lookup(a, k) = lookup(b, k)

\* x ?? d
orElse(x, d) == IF x = undefined THEN d ELSE x

\* !x for a string or undefined
falsy(x) == x = undefined \/ x = EmptyString

(***************************************************************************)
(* Percent escapes.  EscapeTable lists the escapes whose decoded character *)
(* belongs to the model's alphabet; every other "%" that occurs in a       *)
(* string of the model is followed by fewer than two hexadecimal digits,   *)
(* which decodeURIComponent rejects with a URIError and URLSearchParams    *)
(* leaves as it is.                                                        *)
(***************************************************************************)
EscapeTable ==
  (<<"2", "F">> :> "/") @@ (<<"2", "5">> :> "%") @@ (<<"3", "A">> :> ":") @@
  (<<"3", "F">> :> "?") @@ (<<"2", "6">> :> "&") @@ (<<"3", "D">> :> "=") @@
  (<<"2", "B">> :> "+")

RECURSIVE percentDecode(_, _)
percentDecode(s, strict) ==
  IF Len(s) = 0 THEN [ok |-> TRUE, val |-> <<>>]
  ELSE IF s[1] = "%"
  THEN IF Len(s) >= 3 /\ <<s[2], s[3]>> \in DOMAIN EscapeTable
       THEN LET r == percentDecode(SubSeq(s, 4, Len(s)), strict)
            IN [ok |-> r.ok, val |-> <<EscapeTable[<<s[2], s[3]>>]>> \o r.val]
       ELSE IF strict
       THEN [ok |-> FALSE, val |-> <<>>]
       ELSE LET r == percentDecode(Tail(s), strict)
            IN [ok |-> r.ok, val |-> <<"%">> \o r.val]
  ELSE LET r == percentDecode(Tail(s), strict)
       IN [ok |-> r.ok, val |-> <<s[1]>> \o r.val]

\* decodeURIComponent that returns its argument as it is
decodeURIComponent_Raw(s) == [ok |-> TRUE, val |-> s]

\* decodeURIComponent(s): ok = FALSE stands for the URIError it throws
decodeURIComponent(s) == percentDecode(s, TRUE)

\* application/x-www-form-urlencoded decoding of one name or value
RECURSIVE plusToSpace(_)
plusToSpace(s) ==
  IF Len(s) = 0 THEN <<>>
  ELSE <<IF s[1] = "+" THEN " " ELSE s[1]>> \o plusToSpace(Tail(s))

formDecode(s) == percentDecode(plusToSpace(s), FALSE).val

\* application/x-www-form-urlencoded serialisation of one name or value
RECURSIVE formEncode(_)
formEncode(s) ==
  IF Len(s) = 0 THEN <<>>
  ELSE LET c == s[1]
           esc == {e \in DOMAIN EscapeTable : EscapeTable[e] = c}
       IN (IF c = " " THEN <<"+">>
           ELSE IF esc # {} THEN <<"%">> \o (CHOOSE e \in esc : TRUE)
           ELSE <<c>>) \o formEncode(Tail(s))

\* new URLSearchParams(search).entries() folded into searchParamsObject
RECURSIVE searchEntries(_, _)
searchEntries(pieces, obj) ==
  IF Len(pieces) = 0 THEN obj
  ELSE LET piece == pieces[1]
           i == indexOf(piece, <<"=">>)
           name == IF i = 0 THEN piece ELSE SubSeq(piece, 1, i - 1)
           value == IF i = 0 THEN <<>> ELSE SubSeq(piece, i + 1, Len(piece))
       IN searchEntries(Tail(pieces),
                        IF Len(piece) = 0 THEN obj
                        ELSE assign(obj, formDecode(name), formDecode(value)))

parseSearch(search) ==
  searchEntries(split(IF startsWith(search, <<"?">>) THEN slice(search, 1) ELSE search, "&"), <<>>)

\* the loop over Object.entries(searchParamsData) and searchParams.toString()
RECURSIVE serializeSearch(_)
serializeSearch(data) ==
  IF Len(data) = 0 THEN <<>>
  ELSE LET rest == serializeSearch(Tail(data))
       IN IF data[1][2] = undefined THEN rest
          ELSE formEncode(data[1][1]) \o <<"=">> \o formEncode(data[1][2])
               \o (IF Len(rest) = 0 THEN <<>> ELSE <<"&">> \o rest)

(***************************************************************************)
(* Search-parameter contracts.  A contract is any function that returns    *)
(* the validated record or throws.  The model has the zod object schemas   *)
(* of the tests (unknown keys stripped, output in schema order), a schema  *)
(* with a default as in the README, and one hand-written predicate that    *)
(* returns the record it was given.                                        *)
(***************************************************************************)
NoContract == "none"

\* z.object(shape).parse(value); shape is a sequence of <<key, required>>
RECURSIVE zodObject(_, _)
zodObject(shape, value) ==
  IF Len(shape) = 0 THEN [ok |-> TRUE, val |-> <<>>]
  ELSE LET key == shape[1][1]
           v == lookup(value, key)
           rest == zodObject(Tail(shape), value)
       IN IF shape[1][2] /\ v = undefined THEN [ok |-> FALSE, val |-> <<>>]
          ELSE [ok |-> rest.ok,
                val |-> IF hasKey(value, key) THEN <<<<key, v>>>> \o rest.val ELSE rest.val]

\* z.object({ [key]: z.string().default(byDefault) }).parse(value)
zodDefault(key, byDefault, value) ==
  [ok |-> TRUE, val |-> << <<key, orElse(lookup(value, key), byDefault)>> >>]

searchParamsContract(contract, value) ==
  CASE contract = "zq" -> zodObject(<<<<<<"z">>, TRUE>>, <<<<"q">>, FALSE>>>>, value)
    [] contract = "q" -> zodObject(<<<<<<"q">>, FALSE>>>>, value)
    [] contract = "s" -> zodDefault(<<"s">>, <<"d", "a", "t", "e">>, value)
    [] contract = "pass" -> [ok |-> lookup(value, <<"z">>) # undefined, val |-> value]

(***************************************************************************)
(* Outcomes of a call: a returned value or a thrown error, and the record  *)
(* of the inputs the search-parameter contract was invoked with.           *)
(***************************************************************************)
NoError == [kind |-> "none", name |-> <<>>, pattern |-> <<>>, cause |-> <<>>]

\* new Error(`Missing parameter "${name}" for route "${pattern}"`)
MissingParameter(name, pattern) ==
  [kind |-> "Missing parameter", name |-> name, pattern |-> pattern, cause |-> <<>>]

\* new Error(`Missing parameters for route "${pattern}"`)
MissingParameters(pattern) ==
  [kind |-> "Missing parameters", name |-> <<>>, pattern |-> pattern, cause |-> <<>>]

\* the error the contract throws when it rejects input
ValidationError(input) ==
  [kind |-> "Validation", name |-> <<>>, pattern |-> <<>>, cause |-> <<input>>]

\* new Error(`Invalid search parameters and fallback: ${error}`)
InvalidSearchAndFallback(error) ==
  [kind |-> "Invalid search parameters and fallback", name |-> <<>>,
   pattern |-> <<>>, cause |-> error.cause]

\* the URIError of decodeURIComponent
URIError == [kind |-> "URIError", name |-> <<>>, pattern |-> <<>>, cause |-> <<>>]

Return(value, calls) ==
  [status |-> "return", value |-> value, error |-> NoError, calls |-> calls]

Throw(error, calls) ==
  [status |-> "throw", value |-> <<>>, error |-> error, calls |-> calls]

(***************************************************************************)
(* Helper functions for parameter handling.                                *)
(***************************************************************************)
isRoutePattern(pattern) == startsWith(pattern, <<"/">>)

extractParamNames(pattern) ==
  LET paths == split(pattern, "/")
      params == SelectSeq(paths, LAMBDA part : startsWith(part, <<":">>))
  IN [i \in DOMAIN params |-> slice(params[i], 1)]

\* validateParams: NoError when it returns, the thrown error otherwise
validateParams(hasParams, params, paramsNames, pattern) ==
  IF ~hasParams
  THEN IF /\ Len(paramsNames) > 0
          /\ ~falsy(paramsNames[1])
          /\ ~endsWith(paramsNames[1], <<"?">>)
       THEN MissingParameters(pattern)
       ELSE NoError
  ELSE LET found == SelectSeq(paramsNames,
                                LAMBDA name : ~endsWith(name, <<"?">>) /\ ~hasKey(params, name))
           missedParam == IF Len(found) = 0 THEN undefined ELSE found[1]
       IN IF ~falsy(missedParam)
          THEN MissingParameter(missedParam, pattern)
          ELSE NoError

RECURSIVE buildPathFrom(_, _, _, _)
buildPathFrom(path, paramsNames, hasParams, params) ==
  IF Len(paramsNames) = 0 THEN path
  ELSE LET name == paramsNames[1]
           key == IF endsWith(name, <<"?">>) THEN sliceLast(name) ELSE name
           value == orElse(IF hasParams THEN lookup(params, key) ELSE undefined, EmptyString)
       IN buildPathFrom(replace(path, <<":">> \o name, value),
                        Tail(paramsNames), hasParams, params)

buildPath(pattern, paramsNames, hasParams, params) ==
  buildPathFrom(pattern, paramsNames, hasParams, params)

\* Extract path parameters from URL by matching against pattern.
\* ok = FALSE when decodeURIComponent throws.
RECURSIVE extractPathParamsFrom(_, _, _, _)
extractPathParamsFrom(patternParts, pathParts, i, params) ==
  IF i > Len(patternParts) THEN [ok |-> TRUE, val |-> params]
  ELSE LET patternPart == patternParts[i]
           pathPart == IF i <= Len(pathParts) THEN pathParts[i] ELSE EmptyString
           paramName == slice(patternPart, 1)
           isOptional == endsWith(paramName, <<"?">>)
           cleanParamName == IF isOptional THEN sliceLast(paramName) ELSE paramName
           decoded == decodeURIComponent(pathPart)
       IN IF ~startsWith(patternPart, <<":">>)
          THEN extractPathParamsFrom(patternParts, pathParts, i + 1, params)
          ELSE IF pathPart # EmptyString
          THEN IF decoded.ok
               THEN extractPathParamsFrom(patternParts, pathParts, i + 1,
                                          assign(params, cleanParamName, decoded.val))
               ELSE [ok |-> FALSE, val |-> params]
          ELSE IF ~isOptional
          THEN extractPathParamsFrom(patternParts, pathParts, i + 1,
                                     assign(params, cleanParamName, EmptyString))
          ELSE extractPathParamsFrom(patternParts, pathParts, i + 1, params)

\* extractPathParams that extracts nothing from a pathname whose static
\* segments are not the pattern's
extractPathParams_MatchesStatic(pattern, pathname) ==
  LET patternParts == split(pattern, "/")
      pathParts == split(pathname, "/")
  IN IF \A i \in DOMAIN patternParts :
          \/ startsWith(patternParts[i], <<":">>)
          \/ /\ i <= Len(pathParts)
             /\ pathParts[i] = patternParts[i]
     THEN extractPathParamsFrom(patternParts, pathParts, 1, <<>>)
     ELSE [ok |-> TRUE, val |-> <<>>]

extractPathParams(pattern, pathname) ==
  extractPathParamsFrom(split(pattern, "/"), split(pathname, "/"), 1, <<>>)

(***************************************************************************)
(* The two functions of a route entry.  route is the closure of one        *)
(* registration: pattern, paramsNames and searchParamsContract.            *)
(***************************************************************************)
\* get with the "?" appended whether or not the query string is empty
get_AlwaysQuery(route, hasParams, params) ==
  LET invalid == validateParams(hasParams, params, route.paramsNames, route.pattern)
      path == buildPath(route.pattern, route.paramsNames, hasParams, params)
      input == IF hasParams THEN params ELSE <<>>
      searchParamsData == searchParamsContract(route.searchParamsContract, input)
      searchParamsString == serializeSearch(searchParamsData.val)
  IN IF invalid # NoError THEN Throw(invalid, <<>>)
     ELSE IF route.searchParamsContract = NoContract THEN Return(path, <<>>)
     ELSE IF ~searchParamsData.ok THEN Throw(ValidationError(input), <<input>>)
     ELSE Return(path \o <<"?">> \o searchParamsString, <<input>>)

\* get with a rejected record answered by the path without query string
get_SwallowsRejection(route, hasParams, params) ==
  LET invalid == validateParams(hasParams, params, route.paramsNames, route.pattern)
      path == buildPath(route.pattern, route.paramsNames, hasParams, params)
      input == IF hasParams THEN params ELSE <<>>
      searchParamsData == searchParamsContract(route.searchParamsContract, input)
      searchParamsString == serializeSearch(searchParamsData.val)
  IN IF invalid # NoError THEN Throw(invalid, <<>>)
     ELSE IF route.searchParamsContract = NoContract THEN Return(path, <<>>)
     ELSE IF ~searchParamsData.ok THEN Return(path, <<input>>)
     ELSE Return(path \o (IF Len(searchParamsString) = 0 THEN <<>>
                          ELSE <<"?">> \o searchParamsString),
                 <<input>>)

\* const get = (params) => ...
get(route, hasParams, params) ==
  LET invalid == validateParams(hasParams, params, route.paramsNames, route.pattern)
      path == buildPath(route.pattern, route.paramsNames, hasParams, params)
      input == IF hasParams THEN params ELSE <<>>
      searchParamsData == searchParamsContract(route.searchParamsContract, input)
      searchParamsString == serializeSearch(searchParamsData.val)
  IN IF invalid # NoError THEN Throw(invalid, <<>>)
     ELSE IF route.searchParamsContract = NoContract THEN Return(path, <<>>)
     ELSE IF ~searchParamsData.ok THEN Throw(ValidationError(input), <<input>>)
     ELSE Return(path \o (IF Len(searchParamsString) = 0 THEN <<>>
                          ELSE <<"?">> \o searchParamsString),
                 <<input>>)

\* Object.entries(pathParams).forEach: only non-empty path params are added
RECURSIVE addNonEmpty(_, _)
addNonEmpty(mergedParams, pathParams) ==
  IF Len(pathParams) = 0 THEN mergedParams
  ELSE addNonEmpty(IF pathParams[1][2] # EmptyString
                   THEN assign(mergedParams, pathParams[1][1], pathParams[1][2])
                   ELSE mergedParams,
                   Tail(pathParams))

\* validateSearch with the rejected query record left in the result
validateSearch_KeepsQuery(route, mergedParams, hasFallback, fallback, search) ==
  LET searchParamsObject == parseSearch(search)
      validatedSearchParams == searchParamsContract(route.searchParamsContract, searchParamsObject)
      validatedFallbackParams == searchParamsContract(route.searchParamsContract, fallback)
      error == ValidationError(searchParamsObject)
  IN IF validatedSearchParams.ok
     THEN Return(spread(mergedParams, validatedSearchParams.val), <<searchParamsObject>>)
     ELSE IF hasFallback
     THEN IF validatedFallbackParams.ok
          THEN Return(spread(spread(mergedParams, searchParamsObject), validatedFallbackParams.val),
                      <<searchParamsObject, fallback>>)
          ELSE Throw(InvalidSearchAndFallback(error), <<searchParamsObject, fallback>>)
     ELSE Throw(error, <<searchParamsObject>>)

\* validateSearch with the path values spread over the validated record
validateSearch_PathOverSearch(route, mergedParams, hasFallback, fallback, search) ==
  LET searchParamsObject == parseSearch(search)
      validatedSearchParams == searchParamsContract(route.searchParamsContract, searchParamsObject)
      validatedFallbackParams == searchParamsContract(route.searchParamsContract, fallback)
      error == ValidationError(searchParamsObject)
  IN IF validatedSearchParams.ok
     THEN Return(spread(validatedSearchParams.val, mergedParams), <<searchParamsObject>>)
     ELSE IF hasFallback
     THEN IF validatedFallbackParams.ok
          THEN Return(spread(mergedParams, validatedFallbackParams.val),
                      <<searchParamsObject, fallback>>)
          ELSE Throw(InvalidSearchAndFallback(error), <<searchParamsObject, fallback>>)
     ELSE Throw(error, <<searchParamsObject>>)

\* the try/catch around the contract
validateSearch(route, mergedParams, hasFallback, fallback, search) ==
  LET searchParamsObject == parseSearch(search)
      validatedSearchParams == searchParamsContract(route.searchParamsContract, searchParamsObject)
      validatedFallbackParams == searchParamsContract(route.searchParamsContract, fallback)
      error == ValidationError(searchParamsObject)
  IN IF validatedSearchParams.ok
     THEN Return(spread(mergedParams, validatedSearchParams.val), <<searchParamsObject>>)
     ELSE IF hasFallback
     THEN IF validatedFallbackParams.ok
          THEN Return(spread(mergedParams, validatedFallbackParams.val),
                      <<searchParamsObject, fallback>>)
          ELSE Throw(InvalidSearchAndFallback(error), <<searchParamsObject, fallback>>)
     ELSE Throw(error, <<searchParamsObject>>)

useParamsHook(route, hasFallback, fallback, location) ==
  LET extracted == extractPathParams(route.pattern, location.pathname)
      pathParams == extracted.val
      missingParams ==
        SelectSeq(route.paramsNames,
                  LAMBDA name : ~endsWith(name, <<"?">>) /\ falsy(lookup(pathParams, name)))
      stillMissing == SelectSeq(missingParams, LAMBDA name : falsy(lookup(fallback, name)))
      mergedParams == addNonEmpty(IF hasFallback THEN fallback ELSE <<>>, pathParams)
  IN IF ~extracted.ok THEN Throw(URIError, <<>>)
     ELSE IF Len(missingParams) > 0 /\ hasFallback /\ Len(stillMissing) > 0
     THEN Throw(MissingParameter(stillMissing[1], route.pattern), <<>>)
     ELSE IF Len(missingParams) > 0 /\ ~hasFallback
     THEN Throw(MissingParameter(missingParams[1], route.pattern), <<>>)
     ELSE IF route.searchParamsContract # NoContract /\ location.search # EmptyString
     THEN validateSearch(route, mergedParams, hasFallback, fallback, location.search)
     ELSE Return(mergedParams, <<>>)

(***************************************************************************)
(* Flattening of the declaration tree.  A node is                          *)
(*   [hasPath, path, searchParams, hasChildren, children].                 *)
(***************************************************************************)
\* childPath with a node without a path starting a new prefix
childPath_GroupResets(parent, child) ==
  LET joined == parent \o <<"/">> \o child.path
  IN IF ~child.hasPath THEN <<>>
     ELSE IF startsWith(joined, <<"/", "/">>) THEN slice(joined, 1)
     ELSE joined

\* the path of a child under the prefix parent
childPath(parent, child) ==
  LET joined == parent \o <<"/">> \o child.path
  IN IF ~child.hasPath THEN parent
     ELSE IF startsWith(joined, <<"/", "/">>) THEN slice(joined, 1)
     ELSE joined

\* routeEntry with the node's own path stored as the pattern
routeEntry_OwnPath(pattern, child) ==
  [pattern |-> child.path,
   paramsNames |-> extractParamNames(pattern),
   searchParamsContract |-> child.searchParams,
   navigate |-> "none"]

\* the entry registered for pattern: the closure of get and useParamsHook
routeEntry(pattern, child) ==
  [pattern |-> pattern,
   paramsNames |-> extractParamNames(pattern),
   searchParamsContract |-> child.searchParams,
   navigate |-> "none"]

\* register that keeps the entry a pattern already has
register_KeepsFirst(routes, key, entry) ==
  IF key \in DOMAIN routes THEN routes ELSE (key :> entry) @@ routes

\* routes[pattern] = ...
register(routes, key, entry) == (key :> entry) @@ routes

RECURSIVE _inferRouteObject(_, _, _), inferChildren(_, _, _, _)
inferChildren(children, i, parent, routes) ==
  IF i > Len(children) THEN routes
  ELSE LET child == children[i]
           path == childPath(parent, child)
           registered == IF child.hasPath /\ isRoutePattern(path)
                         THEN register(routes, path, routeEntry(path, child))
                         ELSE routes
           descended == IF child.hasChildren
                        THEN _inferRouteObject(child, path, registered)
                        ELSE registered
       IN inferChildren(children, i + 1, parent, descended)

_inferRouteObject(routeObject, parent, routes) ==
  inferChildren(routeObject.children, 1, parent, routes)

NoRoutes == [pattern \in {} |-> routeEntry(pattern, [searchParams |-> NoContract])]

\* the returned object { ...routeObject, ...routes }: the route object's own
\* keys and the registered patterns
inferRouteObject(routeObject, basename) ==
  LET routes == _inferRouteObject([children |-> <<routeObject>>], basename, NoRoutes)
  IN [routeObject |-> routeObject, routes |-> routes]

\* Object.keys of the returned object
ownKeys(routeObject) ==
  (IF routeObject.hasPath THEN {<<"p", "a", "t", "h">>} ELSE {})
  \cup (IF routeObject.hasChildren THEN {<<"c", "h", "i", "l", "d", "r", "e", "n">>} ELSE {})
  \cup (IF routeObject.searchParams # NoContract
        THEN {<<"s", "e", "a", "r", "c", "h", "P", "a", "r", "a", "m", "s">>} ELSE {})

resultKeys(result) == ownKeys(result.routeObject) \cup DOMAIN result.routes

(***************************************************************************)
(* What a call leaves behind.  get assigns only its locals path and        *)
(* searchParams; useParamsHook assigns only missingParams, mergedParams    *)
(* (a copy of fallback) and searchParamsObject.  route is the closure      *)
(* after the call, arg the caller's params or fallback object after it.    *)
(***************************************************************************)
getEffect(route, hasParams, params) == [route |-> route, arg |-> params]

\* useParamsHook with mergedParams an alias of fallback instead of a copy
useParamsEffect_MergesIntoFallback(route, hasFallback, fallback, location) ==
  [route |-> route,
   arg |-> IF hasFallback
           THEN addNonEmpty(fallback, extractPathParams(route.pattern, location.pathname).val)
           ELSE fallback]

useParamsEffect(route, hasFallback, fallback, location) == [route |-> route, arg |-> fallback]

(***************************************************************************)
(* createRouter.ts.  A router is known by its name; the navigate function  *)
(* that bindRouter stores on an entry is known by the router it forwards   *)
(* to.                                                                     *)
(***************************************************************************)
Routers == {"r1", "r2"}

\* the opts argument left out
NoOptions == [given |-> FALSE, value |-> <<>>]

\* bindRouter that leaves an entry's navigate alone once it has one
bindRouter_KeepsFirst(router, routes) ==
  [routes EXCEPT !.routes =
     [pattern \in DOMAIN routes.routes |->
        IF isRoutePattern(pattern) /\ routes.routes[pattern].navigate \notin Routers
        THEN [routes.routes[pattern] EXCEPT !.navigate = router]
        ELSE routes.routes[pattern]]]

\* for (const pattern in routes) if (isRoutePattern(pattern)) path.navigate = ...;
\* the keys of the route object itself are not patterns and are skipped
bindRouter(router, routes) ==
  [routes EXCEPT !.routes =
     [pattern \in DOMAIN routes.routes |->
        IF isRoutePattern(pattern)
        THEN [routes.routes[pattern] EXCEPT !.navigate = router]
        ELSE routes.routes[pattern]]]

\* createRouter([routeObject], { basename }): the array becomes the children
\* of a node without path
createRouter(router, routeObject, basename) ==
  bindRouter(router,
             inferRouteObject([hasPath |-> FALSE, path |-> <<>>, searchParams |-> NoContract,
                               hasChildren |-> TRUE, children |-> <<routeObject>>],
                              basename))

\* navigate that forwards the built path without the options
navigate_DropsOptions(route, hasParams, params, opts) ==
  LET built == get(route, hasParams, params)
  IN [out |-> IF built.status = "return" THEN Return(undefined, built.calls) ELSE built,
      sent |-> IF built.status = "return"
               THEN << [router |-> route.navigate, url |-> built.value, opts |-> NoOptions] >>
               ELSE <<>>]

\* path.navigate = (params, opts) => router.navigate(path(params), opts):
\* out is what the caller gets (nothing, or the error of path(params)), sent
\* the invocations of router.navigate
navigate(route, hasParams, params, opts) ==
  LET built == get(route, hasParams, params)
  IN [out |-> IF built.status = "return" THEN Return(undefined, built.calls) ELSE built,
      sent |-> IF built.status = "return"
               THEN << [router |-> route.navigate, url |-> built.value, opts |-> opts] >>
               ELSE <<>>]

(***************************************************************************)
(* Inputs.                                                                 *)
(***************************************************************************)
Leaf(path, searchParams) ==
  [hasPath |-> TRUE, path |-> path, searchParams |-> searchParams,
   hasChildren |-> FALSE, children |-> <<>>]

Node(path, searchParams, children) ==
  [hasPath |-> TRUE, path |-> path, searchParams |-> searchParams,
   hasChildren |-> TRUE, children |-> children]

Group(children) ==
  [hasPath |-> FALSE, path |-> <<>>, searchParams |-> NoContract,
   hasChildren |-> TRUE, children |-> children]

\* the declaration trees of the tests and trees with optional, repeated and
\* embedded parameter names
TreeSet ==
  { Node(<<"a", "/", ":", "b">>, NoContract,
         << Leaf(<<"c", "/", ":", "d">>, "zq"),
            Leaf(<<"c", "/", ":", "d", "?">>, "q") >>),
    Node(<<"a", "/", ":", "b">>, "pass",
         << Leaf(<<"c", "/", ":", "d">>, "zq"),
            Group(<< Leaf(<<"c", "/", ":", "d">>, NoContract) >>) >>),
    Node(<<":", "a", "?">>, NoContract, << Leaf(<<":", "b">>, NoContract) >>),
    Node(<<":", "a">>, NoContract, << Leaf(<<":", "a">>, NoContract) >>),
    Node(<<"x", ":", "b">>, NoContract, << Leaf(<<":", "b">>, NoContract) >>),
    Node(<<"a">>, NoContract,
         << Leaf(<<"b">>, "s"),
            Node(<<"c">>, NoContract,
                 << Group(<< Group(<< Leaf(<<"d">>, "zq") >>) >>) >>) >>) }

\* trees in which several nodes yield the same pattern: a later sibling
\* repeats a pattern of an earlier sibling's subtree, and a later sibling's
\* subtree repeats a pattern of an earlier sibling
DuplicateSet ==
  { Node(<<"a">>, NoContract,
         << Node(<<"b">>, "q", << Leaf(<<"c">>, "zq") >>),
            Leaf(<<"b", "/", "c">>, "s") >>),
    Node(<<"a">>, NoContract,
         << Leaf(<<"b", "/", "c">>, "q"),
            Node(<<"b">>, NoContract, << Leaf(<<"c">>, "zq") >>),
            Group(<< Leaf(<<"b">>, "s") >>) >>) }

\* every tree without basename, and the trees of the tests under a basename
ConfigSet ==
  { <<tree, <<>>>> : tree \in TreeSet }
  \cup { <<tree, <<"/", "s">>>> : tree \in { t \in TreeSet : t.path = <<"a", "/", ":", "b">> } }

\* the nesting depth of the generated declaration trees
MaxDepth == 3

\* what one node of a generated tree declares: no path, a static segment, a
\* parameter segment, a segment that begins with "/"
SegmentSet ==
  { [hasPath |-> FALSE, path |-> <<>>],
    [hasPath |-> TRUE, path |-> <<"a">>],
    [hasPath |-> TRUE, path |-> <<":", "b">>],
    [hasPath |-> TRUE, path |-> <<"/", "c">>] }

\* the tree in which node i declares segs[i] and has node i + 1 as only child
RECURSIVE Chain(_)
Chain(segs) ==
  [hasPath |-> segs[1].hasPath, path |-> segs[1].path, searchParams |-> NoContract,
   hasChildren |-> Len(segs) > 1,
   children |-> IF Len(segs) > 1 THEN <<Chain(Tail(segs))>> ELSE <<>>]

ChainSet == { Chain(segs) : segs \in UNION { [1..n -> SegmentSet] : n \in 1..MaxDepth } }

\* basenames with and without a leading and a trailing "/"
AnyBasenameSet == { <<>>, <<"/", "s">>, <<"s">>, <<"/">>, <<"/", "s", "/">> }

ParamsSet ==
  { <<>>,
    << <<<<"b">>, <<"B">>>> >>,
    << <<<<"b">>, <<>>>> >>,
    << <<<<"b">>, <<"%", "2", "F">>>> >>,
    << <<<<"d">>, <<"D">>>> >>,
    << <<<<"b">>, <<"B">>>>, <<<<"d">>, <<"D">>>> >>,
    << <<<<"b">>, <<"B">>>>, <<<<"d">>, <<"D">>>>, <<<<"z">>, <<"Z">>>> >>,
    << <<<<"b">>, <<"B">>>>, <<<<"d">>, <<"D">>>>, <<<<"z">>, <<"Z">>>>, <<<<"q">>, undefined>> >>,
    << <<<<"q">>, <<"Q">>>>, <<<<"b">>, <<"B">>>>, <<<<"d">>, <<"D">>>>, <<<<"z">>, <<"Z">>>> >>,
    << <<<<"b">>, <<":", "d">>>>, <<<<"d">>, <<"X">>>> >>,
    << <<<<"b">>, <<>>>>, <<<<"d">>, <<"D">>>> >>,
    << <<<<"b">>, <<"%">>>>, <<<<"d">>, <<"D">>>> >>,
    << <<<<"b">>, <<"B", "/", "X">>>>, <<<<"d">>, <<"D">>>> >>,
    << <<<<"b">>, undefined>>, <<<<"d">>, <<"D">>>> >>,
    << <<<<"a">>, <<"A">>>> >>,
    << <<<<"a">>, <<"A">>>>, <<<<"b">>, <<"B">>>> >> }

FallbackSet ==
  { <<>>,
    << <<<<"b">>, <<>>>> >>,
    << <<<<"b">>, <<>>>>, <<<<"d">>, <<"f", "d">>>> >>,
    << <<<<"b">>, <<"f", "b">>>>, <<<<"d">>, <<"f", "d">>>> >>,
    << <<<<"z">>, <<"f", "z">>>>, <<<<"q">>, <<"f", "q">>>> >>,
    << <<<<"b">>, <<"f", "b">>>>, <<<<"z">>, <<"f", "z">>>> >>,
    << <<<<"q">>, <<"f", "q">>>> >> }

PathnameSet ==
  { <<"/", "a", "/", "B">>,
    <<"/", "a", "/">>,
    <<"/", "a", "/", "B", "/", "c", "/", "D">>,
    <<"/", "a", "/", "B", "/", "c", "/">>,
    <<"/", "a", "/", "/", "c", "/">>,
    <<"/", "a", "/", "%", "2", "F", "/", "c", "/", "D">>,
    <<"/", "a", "/", "%", "/", "c", "/", "D">>,
    <<"/", "y", "/", "B", "/", "y", "/", "D", "/", "E">>,
    <<"/", "/", "B">>,
    <<"/", "A", "/">>,
    <<"/", "s", "/", "a", "/", "B", "/", "c", "/", "D">> }

SearchSet ==
  { <<"?">>,
    <<"?", "z", "=", "Z">>,
    <<"?", "q", "=", "Q">>,
    <<"?", "z", "=", "Z", "&", "q", "=", "Q">>,
    <<"?", "b", "=", "s", "b", "&", "z", "=", "Z">> }

\* every pathname without a query string, and every query string on the
\* pathnames of the tests
LocationSet ==
  { [pathname |-> pathname, search |-> <<>>] : pathname \in PathnameSet }
  \cup { [pathname |-> pathname, search |-> search] :
           pathname \in { <<"/", "a", "/", "B">>,
                          <<"/", "a", "/", "B", "/", "c", "/", "D">> },
           search \in SearchSet }

\* the options of a navigation: none, { replace: true }
OptionsSet ==
  { NoOptions,
    [given |-> TRUE,
     value |-> << <<<<"r", "e", "p", "l", "a", "c", "e">>, <<"t", "r", "u", "e">>>> >>] }

\* the tree of the tests under a basename, as in the createRouter test
\* "should apply basename"
RouterConfigSet ==
  { <<Node(<<"a", "/", ":", "b">>, NoContract, << Leaf(<<"c", "/", ":", "d">>, "zq") >>),
      <<"/", "s">>>> }

\* the number of path(), useParams() and navigate() calls of one behaviour
MaxCalls == 1

\* the number of times a call is made again with the same arguments
MaxRepeats == 1

(***************************************************************************)
(* The state machine.                                                      *)
(***************************************************************************)
VARIABLES
  routeObject,   \* the declaration tree handed to inferRouteObject
  basename,      \* its basename argument
  built,         \* whether inferRouteObject has returned
  ROUTES,        \* the object it returned
  location,      \* what useLocation() returned to the last useParams call
  last,          \* the last call: operation, entry, argument and outcome
  ncalls,        \* the number of path(), useParams() and navigate() calls made
  caller,        \* the caller's params or fallback object after the last call
  navigated      \* the invocations of the routers' navigate, in order

vars == <<routeObject, basename, built, ROUTES, location, last, ncalls, caller, navigated>>

NoLocation == [pathname |-> <<>>, search |-> <<>>]

Call(op, pattern, hasArg, arg, out) ==
  [op |-> op, pattern |-> pattern, hasArg |-> hasArg, arg |-> arg, out |-> out,
   opts |-> NoOptions, router |-> "none"]

Unbuilt ==
  /\ built = FALSE
  /\ ROUTES = [routeObject |-> routeObject, routes |-> NoRoutes]
  /\ location = NoLocation
  /\ last = Call("none", <<>>, FALSE, <<>>, Return(<<>>, <<>>))
  /\ ncalls = 0
  /\ caller = <<>>
  /\ navigated = <<>>

Init ==
  /\ \E config \in ConfigSet : routeObject = config[1] /\ basename = config[2]
  /\ Unbuilt

\* const ROUTES = inferRouteObject(routeObject, basename)
InferRouteObject ==
  /\ ~built
  /\ built' = TRUE
  /\ ROUTES' = inferRouteObject(routeObject, basename)
  /\ last' = Call("inferRouteObject", <<>>, FALSE, <<>>, Return(<<>>, <<>>))
  /\ UNCHANGED <<routeObject, basename, location, ncalls, caller, navigated>>

\* ROUTES[pattern].path(params) and ROUTES[pattern].path()
Get ==
  /\ built
  /\ ncalls < MaxCalls
  /\ ncalls' = ncalls + 1
  /\ \E pattern \in DOMAIN ROUTES.routes, hasParams \in BOOLEAN :
       \E params \in (IF hasParams THEN ParamsSet ELSE {<<>>}) :
         LET effect == getEffect(ROUTES.routes[pattern], hasParams, params)
         IN /\ last' = Call("get", pattern, hasParams, params,
                            get(ROUTES.routes[pattern], hasParams, params))
            /\ ROUTES' = [ROUTES EXCEPT !.routes[pattern] = effect.route]
            /\ caller' = effect.arg
  /\ UNCHANGED <<routeObject, basename, built, location, navigated>>

\* ROUTES[pattern].path.useParams(fallback) and useParams(), at the location
\* that useLocation() returns
UseParams ==
  /\ built
  /\ ncalls < MaxCalls
  /\ ncalls' = ncalls + 1
  /\ \E pattern \in DOMAIN ROUTES.routes, hasFallback \in BOOLEAN,
        current \in LocationSet :
       \E fallback \in (IF hasFallback THEN FallbackSet ELSE {<<>>}) :
         LET effect == useParamsEffect(ROUTES.routes[pattern], hasFallback, fallback, current)
         IN /\ location' = current
            /\ last' = Call("useParams", pattern, hasFallback, fallback,
                            useParamsHook(ROUTES.routes[pattern], hasFallback, fallback, current))
            /\ ROUTES' = [ROUTES EXCEPT !.routes[pattern] = effect.route]
            /\ caller' = effect.arg
  /\ UNCHANGED <<routeObject, basename, built, navigated>>

Next == InferRouteObject \/ Get \/ UseParams

Spec == Init /\ [][Next]_vars

\* const ROUTER = createRouter([routeObject], { basename })
CreateRouter ==
  /\ ~built
  /\ built' = TRUE
  /\ \E router \in Routers :
       /\ ROUTES' = createRouter(router, routeObject, basename)
       /\ last' = [Call("createRouter", <<>>, FALSE, <<>>, Return(<<>>, <<>>))
                     EXCEPT !.router = router]
  /\ UNCHANGED <<routeObject, basename, location, ncalls, caller, navigated>>

\* bindRouter(router, ROUTES)
BindRouter ==
  /\ built
  /\ \E router \in Routers :
       /\ ROUTES' = bindRouter(router, ROUTES)
       /\ last' = [Call("bindRouter", <<>>, FALSE, <<>>, Return(<<>>, <<>>))
                     EXCEPT !.router = router]
  /\ UNCHANGED <<routeObject, basename, built, location, ncalls, caller, navigated>>

\* ROUTES[pattern].path.navigate(params, opts)
Navigate ==
  /\ built
  /\ ncalls < MaxCalls
  /\ ncalls' = ncalls + 1
  /\ \E pattern \in DOMAIN ROUTES.routes, hasParams \in BOOLEAN, opts \in OptionsSet :
       \E params \in (IF hasParams THEN ParamsSet ELSE {<<>>}) :
         LET effect == getEffect(ROUTES.routes[pattern], hasParams, params)
             forwarded == navigate(ROUTES.routes[pattern], hasParams, params, opts)
         IN /\ ROUTES.routes[pattern].navigate \in Routers
            /\ last' = [Call("navigate", pattern, hasParams, params, forwarded.out)
                          EXCEPT !.opts = opts]
            /\ navigated' = navigated \o forwarded.sent
            /\ ROUTES' = [ROUTES EXCEPT !.routes[pattern] = effect.route]
            /\ caller' = effect.arg
  /\ UNCHANGED <<routeObject, basename, built, location>>

\* the last call made again, with the same arguments and at the same
\* location: a component that renders again calls its hooks again
Repeat ==
  /\ built
  /\ last.op \in {"get", "useParams", "navigate"}
  /\ ncalls >= 1
  /\ ncalls < MaxCalls + MaxRepeats
  /\ ncalls' = ncalls + 1
  /\ LET route == ROUTES.routes[last.pattern]
         effect == IF last.op = "useParams"
                   THEN useParamsEffect(route, last.hasArg, last.arg, location)
                   ELSE getEffect(route, last.hasArg, last.arg)
         forwarded == navigate(route, last.hasArg, last.arg, last.opts)
     IN /\ last' = [last EXCEPT !.out =
                      CASE last.op = "get" -> get(route, last.hasArg, last.arg)
                        [] last.op = "useParams" ->
                             useParamsHook(route, last.hasArg, last.arg, location)
                        [] last.op = "navigate" -> forwarded.out]
        /\ navigated' = IF last.op = "navigate" THEN navigated \o forwarded.sent
                        ELSE navigated
        /\ ROUTES' = [ROUTES EXCEPT !.routes[last.pattern] = effect.route]
        /\ caller' = effect.arg
  /\ UNCHANGED <<routeObject, basename, built, location>>

\* the typed routes of a router: built by createRouter, or built by
\* inferRouteObject and bound by bindRouter, then called
InitRouter ==
  /\ \E config \in RouterConfigSet : routeObject = config[1] /\ basename = config[2]
  /\ Unbuilt

NextRouter ==
  CreateRouter \/ InferRouteObject \/ BindRouter \/ Get \/ UseParams \/ Navigate \/ Repeat

SpecRouter == InitRouter /\ [][NextRouter]_vars

\* inferRouteObject alone, on every generated tree and every basename
InitInfer ==
  /\ routeObject \in TreeSet \cup DuplicateSet \cup ChainSet
  /\ basename \in AnyBasenameSet
  /\ Unbuilt

NextInfer == InferRouteObject

SpecInfer == InitInfer /\ [][NextInfer]_vars

(***************************************************************************)
(* Properties.                                                             *)
(***************************************************************************)

\* C1: every key of the object returned by inferRouteObject that begins with
\* "/" maps to an entry whose pattern is that key.
C1_KeyIsPattern ==
  built => \A key \in resultKeys(ROUTES) :
             startsWith(key, <<"/">>) =>
               /\ key \in DOMAIN ROUTES.routes
               /\ ROUTES.routes[key].pattern = key

\* C1 witness: a returned object with entries at two nesting depths under a
\* basename
C1_Witness ==
  /\ built
  /\ basename # <<>>
  /\ Cardinality(DOMAIN ROUTES.routes) >= 2

\* s without its leading "/" characters
RECURSIVE stripLeadingSlashes(_)
stripLeadingSlashes(s) ==
  IF startsWith(s, <<"/">>) THEN stripLeadingSlashes(Tail(s)) ELSE s

\* the accumulated paths of the path-declaring nodes of the subtree at node:
\* the segments from the root down to each such node, joined by "/"
RECURSIVE accumulatedPaths(_, _)
accumulatedPaths(node, above) ==
  LET segments == IF node.hasPath THEN Append(above, node.path) ELSE above
  IN (IF node.hasPath THEN {join(segments, "/")} ELSE {})
     \cup UNION { accumulatedPaths(node.children[i], segments) : i \in DOMAIN node.children }

\* C2: the registered patterns are exactly the accumulated paths of the
\* path-declaring nodes (segments of the path-declaring ancestors and the
\* node's own joined by "/" in root-to-node order, the basename first), up to
\* leading "/" characters; a node without a path adds no pattern and no
\* segment.
C2_ExactlyAccumulatedPaths ==
  (built /\ (basename = <<>> \/ startsWith(basename, <<"/">>))) =>
    /\ \A pattern \in DOMAIN ROUTES.routes : startsWith(pattern, <<"/">>)
    /\ { stripLeadingSlashes(pattern) : pattern \in DOMAIN ROUTES.routes }
         = { stripLeadingSlashes(path) :
               path \in accumulatedPaths(routeObject,
                                         IF basename = <<>> THEN <<>> ELSE <<basename>>) }

\* C2 witness: a tree of depth three whose middle node declares no path and
\* whose leaf is registered under the root's prefix
C2_Witness ==
  /\ built
  /\ basename = <<>>
  /\ routeObject.hasPath /\ routeObject.hasChildren
  /\ ~routeObject.children[1].hasPath /\ routeObject.children[1].hasChildren
  /\ routeObject.children[1].children[1].hasPath
  /\ (routeObject.path \o <<"/">> \o routeObject.children[1].children[1].path)
       \in { stripLeadingSlashes(pattern) : pattern \in DOMAIN ROUTES.routes }

(***************************************************************************)
(* The parameter tokens of a pattern (PatternCompiler): a segment that     *)
(* begins with ":" is a token, a trailing "?" marks it optional.           *)
(***************************************************************************)
isToken(part) == startsWith(part, <<":">>)

isOptionalToken(part) == isToken(part) /\ endsWith(part, <<"?">>)

isRequiredToken(part) == isToken(part) /\ ~endsWith(part, <<"?">>)

tokenName(part) == IF isOptionalToken(part) THEN sliceLast(slice(part, 1)) ELSE slice(part, 1)

\* the positions of the tokens of pattern that satisfy test, in segment order
tokenPositions(pattern, test(_)) ==
  LET parts == split(pattern, "/") IN {i \in DOMAIN parts : test(parts[i])}

\* the least element of a non-empty set of positions
first(positions) == CHOOSE i \in positions : \A j \in positions : i <= j

\* the part of a built location before its query string
RECURSIVE beforeQuery(_)
beforeQuery(s) ==
  IF Len(s) = 0 \/ s[1] = "?" THEN <<>> ELSE <<s[1]>> \o beforeQuery(Tail(s))

\* the entry the last call was made on
lastRoute == ROUTES.routes[last.pattern]

\* C3: when params supplies a value without "/" for every token, the built
\* path has the pattern's number of segments, every static segment unchanged
\* and every parameter segment equal to the value supplied for its name.
C3_BuildSubstitutesByPosition ==
  LET parts == split(last.pattern, "/")
      segments == split(beforeQuery(last.out.value), "/")
  IN (/\ last.op = "get"
      /\ last.hasArg
      /\ last.out.status = "return"
      /\ \A i \in DOMAIN parts :
           isToken(parts[i]) =>
             /\ lookup(last.arg, tokenName(parts[i])) # undefined
             /\ indexOf(lookup(last.arg, tokenName(parts[i])), <<"/">>) = 0)
     => /\ Len(segments) = Len(parts)
        /\ \A i \in DOMAIN parts :
             segments[i] = IF isToken(parts[i])
                           THEN lookup(last.arg, tokenName(parts[i]))
                           ELSE parts[i]

\* C4: when the argument of build lacks some required token, build throws
\* the missing-parameter error that names the first absent required token
\* and the pattern.
C4_BuildNamesFirstMissing ==
  LET parts == split(last.pattern, "/")
      absent == tokenPositions(last.pattern,
                  LAMBDA part : isRequiredToken(part)
                                /\ ~(last.hasArg /\ hasKey(last.arg, tokenName(part))))
  IN (last.op = "get" /\ absent # {})
     => last.out = Throw(MissingParameter(tokenName(parts[first(absent)]), last.pattern), <<>>)

\* pattern has no repeated token name and no static segment with a ":" in it
plainPattern(pattern) ==
  LET parts == split(pattern, "/")
  IN /\ \A i, j \in tokenPositions(pattern, isToken) :
          tokenName(parts[i]) = tokenName(parts[j]) => i = j
     /\ \A i \in DOMAIN parts : ~isToken(parts[i]) => indexOf(parts[i], <<":">>) = 0

\* C5: round trip.  On a pattern with only required tokens and no search
\* capability, useParams() at the pathname that build returned for params
\* returns a record equal to params.
C5_RoundTrip ==
  LET names == { tokenName(split(last.pattern, "/")[i]) :
                   i \in tokenPositions(last.pattern, isToken) }
      read == useParamsHook(lastRoute, FALSE, <<>>,
                            [pathname |-> last.out.value, search |-> <<>>])
  IN (/\ last.op = "get"
      /\ plainPattern(last.pattern)
      /\ last.hasArg
      /\ last.out.status = "return"
      /\ lastRoute.searchParamsContract = NoContract
      /\ tokenPositions(last.pattern, isOptionalToken) = {}
      /\ keysOf(last.arg) = names)
     => /\ read.status = "return"
        /\ sameRecord(read.value, last.arg)

\* the pathname segment at position i, empty when the pathname is shorter
segmentAt(pathname, i) ==
  LET pathParts == split(pathname, "/")
  IN IF i <= Len(pathParts) THEN pathParts[i] ELSE EmptyString

\* the positions of the required tokens whose pathname segment is empty or
\* absent
emptyRequired(pattern, pathname) ==
  { i \in tokenPositions(pattern, isRequiredToken) : segmentAt(pathname, i) = EmptyString }

\* C6: when some required token has an empty or absent segment and no entry
\* in fallback, useParams throws the missing-parameter error that names the
\* first such token and the pattern.
C6_ReadNamesFirstUncovered ==
  LET parts == split(last.pattern, "/")
      uncovered == { i \in emptyRequired(last.pattern, location.pathname) :
                       ~(last.hasArg /\ hasKey(last.arg, tokenName(parts[i]))) }
  IN (last.op = "useParams" /\ plainPattern(last.pattern) /\ uncovered # {})
     => last.out = Throw(MissingParameter(tokenName(parts[first(uncovered)]), last.pattern), <<>>)

\* C7: when fallback has an entry, of whatever value, for every required
\* token whose segment is empty or absent, useParams throws no
\* missing-parameter error, and the record it returns holds fallback's value
\* for each such token (unless the query string supplies that name).
C7_FallbackEntryCovers ==
  LET parts == split(last.pattern, "/")
      missing == emptyRequired(last.pattern, location.pathname)
  IN (/\ last.op = "useParams"
      /\ plainPattern(last.pattern)
      /\ missing # {}
      /\ last.hasArg
      /\ \A i \in missing : hasKey(last.arg, tokenName(parts[i])))
     => /\ last.out.error.kind # "Missing parameter"
        /\ last.out.status = "return" =>
             \A i \in missing :
               \/ lookup(last.out.value, tokenName(parts[i])) = lookup(last.arg, tokenName(parts[i]))
               \/ hasKey(parseSearch(location.search), tokenName(parts[i]))

\* record has every key of part with part's value
contains(record, part) ==
  \A key \in keysOf(part) : hasKey(record, key) /\ lookup(record, key) = lookup(part, key)

\* C8: on a route with a search capability every record that useParams
\* returns contains the capability's validated output for the parsed query
\* string or for fallback, the empty query string included.
C8_ReadAlwaysValidates ==
  LET ofSearch == searchParamsContract(lastRoute.searchParamsContract, parseSearch(location.search))
      ofFallback == searchParamsContract(lastRoute.searchParamsContract, last.arg)
  IN (/\ last.op = "useParams"
      /\ plainPattern(last.pattern)
      /\ last.out.status = "return"
      /\ lastRoute.searchParamsContract # NoContract)
     => \/ ofSearch.ok /\ contains(last.out.value, ofSearch.val)
        \/ last.hasArg /\ ofFallback.ok /\ contains(last.out.value, ofFallback.val)

\* C9: in every record that useParams returns, a token whose segment is not
\* empty holds a value of the location (the decoded segment, or the query
\* value of that name), and a query key that the capability accepts holds
\* the validated query value; neither holds fallback's value instead.
C9_LocationOverFallback ==
  LET parts == split(last.pattern, "/")
      query == parseSearch(location.search)
      ofSearch == searchParamsContract(lastRoute.searchParamsContract, query)
  IN (last.op = "useParams" /\ plainPattern(last.pattern) /\ last.out.status = "return")
     => /\ \A i \in tokenPositions(last.pattern, isToken) :
             segmentAt(location.pathname, i) # EmptyString =>
               \/ lookup(last.out.value, tokenName(parts[i]))
                    = decodeURIComponent(segmentAt(location.pathname, i)).val
               \/ /\ hasKey(query, tokenName(parts[i]))
                  /\ lookup(last.out.value, tokenName(parts[i])) = lookup(query, tokenName(parts[i]))
        /\ (/\ lastRoute.searchParamsContract # NoContract
            /\ location.search # EmptyString
            /\ ofSearch.ok)
           => contains(last.out.value, ofSearch.val)

\* the capability was invoked with the parsed query string and rejected it
queryRejected ==
  /\ last.op = "useParams"
  /\ Len(last.out.calls) >= 1
  /\ last.out.calls[1] = parseSearch(location.search)
  /\ ~searchParamsContract(lastRoute.searchParamsContract, last.out.calls[1]).ok

\* the value that key has in the extracted path values overlaid with the
\* validated fallback record, fallback's own value for a key of neither
overlaidValue(key, validated) ==
  LET parts == split(last.pattern, "/")
      supplied == { i \in tokenPositions(last.pattern, isToken) :
                      tokenName(parts[i]) = key /\ segmentAt(location.pathname, i) # EmptyString }
  IN IF hasKey(validated, key) THEN lookup(validated, key)
     ELSE IF supplied # {}
     THEN decodeURIComponent(segmentAt(location.pathname, first(supplied))).val
     ELSE lookup(last.arg, key)

definedEntries(record) == SelectSeq(record, LAMBDA entry : entry[2] # undefined)

\* the key=value pairs of entries, each key and value form-encoded
keyValuePairs(entries) ==
  [i \in DOMAIN entries |-> formEncode(entries[i][1]) \o <<"=">> \o formEncode(entries[i][2])]

\* C11: the query part of what build returns is the key=value pairs of
\* exactly the keys of the validated record whose value is not undefined, in
\* the validated record's key order, joined by "&"; one "?" precedes it when
\* there is such a key, and the output is the bare path without "?" when
\* there is none.
C11_QueryOfValidatedRecord ==
  LET validated == searchParamsContract(lastRoute.searchParamsContract, last.arg).val
      path == buildPath(last.pattern, lastRoute.paramsNames, last.hasArg, last.arg)
      pairs == keyValuePairs(definedEntries(validated))
      query == slice(last.out.value, Len(path))
  IN (/\ last.op = "get"
      /\ last.out.status = "return"
      /\ lastRoute.searchParamsContract # NoContract)
     => /\ SubSeq(last.out.value, 1, Len(path)) = path
        /\ Len(pairs) = 0 => query = <<>>
        /\ Len(pairs) > 0 =>
             /\ query = <<"?">> \o join(pairs, "&")
             /\ indexOf(Tail(query), <<"?">>) = 0

\* C11 witness: a built location whose validated record has a key of value
\* undefined next to a defined one
C11_Witness ==
  /\ last.op = "get"
  /\ last.out.status = "return"
  /\ lastRoute.searchParamsContract # NoContract
  /\ LET validated == searchParamsContract(lastRoute.searchParamsContract, last.arg).val
     IN /\ Len(definedEntries(validated)) >= 1
        /\ Len(definedEntries(validated)) < Len(validated)

\* C12: on a route with a search capability, a build whose required tokens
\* are all supplied invokes the capability exactly once, with the params bag
\* used for path substitution (the empty record when params is omitted);
\* when the capability rejects it, build throws the capability's error,
\* returns no path, and invokes nothing again.  A build that validateParams
\* rejects does not reach the capability.
C12_BuildValidatesOnce ==
  LET input == IF last.hasArg THEN last.arg ELSE <<>>
      checked == validateParams(last.hasArg, last.arg, lastRoute.paramsNames, last.pattern)
      validated == searchParamsContract(lastRoute.searchParamsContract, input)
  IN (last.op = "get" /\ lastRoute.searchParamsContract # NoContract)
     => IF checked = NoError
        THEN /\ last.out.calls = <<input>>
             /\ ~validated.ok => last.out = Throw(ValidationError(input), <<input>>)
             /\ validated.ok => last.out.status = "return"
        ELSE last.out = Throw(checked, <<>>)

\* C12 witness: build without argument on a route whose capability rejects
\* the empty record
C12_Witness ==
  /\ last.op = "get"
  /\ ~last.hasArg
  /\ lastRoute.searchParamsContract # NoContract
  /\ last.out.calls = << <<>> >>
  /\ last.out.status = "throw"
  /\ last.out.error.kind = "Validation"

\* the part of a built location from its query string on
afterPath(s) == slice(s, Len(beforeQuery(s)))

\* the positions of the optional tokens whose name the argument of the last
\* call lacks
omittedOptional ==
  LET parts == split(last.pattern, "/")
  IN { i \in tokenPositions(last.pattern, isOptionalToken) :
         ~(last.hasArg /\ hasKey(last.arg, tokenName(parts[i]))) }

\* C13: when params lacks an optional token (and holds a non-empty value for
\* every required one), what build returns has an empty segment at that
\* token's position, and useParams() at that location, without fallback,
\* returns a record without that token's key.
C13_OmittedOptionalStaysAbsent ==
  LET parts == split(last.pattern, "/")
      pathname == beforeQuery(last.out.value)
      read == useParamsHook(lastRoute, FALSE, <<>>,
                            [pathname |-> pathname, search |-> afterPath(last.out.value)])
  IN (/\ last.op = "get"
      /\ plainPattern(last.pattern)
      /\ last.hasArg
      /\ last.out.status = "return"
      /\ omittedOptional # {}
      /\ \A i \in tokenPositions(last.pattern, isRequiredToken) :
           ~falsy(lookup(last.arg, tokenName(parts[i]))))
     => /\ \A i \in omittedOptional : segmentAt(pathname, i) = EmptyString
        /\ read.status = "return"
        /\ \A i \in omittedOptional : ~hasKey(read.value, tokenName(parts[i]))

\* no two tokens of pattern have the same name
distinctNames(pattern) ==
  LET parts == split(pattern, "/")
  IN \A i, j \in tokenPositions(pattern, isToken) :
       tokenName(parts[i]) = tokenName(parts[j]) => i = j

\* the segment of the current pathname at every token position of the last
\* call's pattern is non-empty and validly percent-encoded
everyTokenSupplied ==
  \A i \in tokenPositions(last.pattern, isToken) :
    /\ segmentAt(location.pathname, i) # EmptyString
    /\ percentDecode(segmentAt(location.pathname, i), TRUE).ok

\* C14: without fallback and without search capability, at a pathname whose
\* segment at every token position is non-empty (and validly encoded),
\* useParams returns exactly the record that maps each token name, optional
\* marker stripped, to the percent-decoded segment at the token's position;
\* segments beyond the pattern's length add no key.
C14_ReadDecodesByPosition ==
  LET parts == split(last.pattern, "/")
      positions == tokenPositions(last.pattern, isToken)
  IN (/\ last.op = "useParams"
      /\ ~last.hasArg
      /\ lastRoute.searchParamsContract = NoContract
      /\ distinctNames(last.pattern)
      /\ everyTokenSupplied)
     => /\ last.out.status = "return"
        /\ keysOf(last.out.value) = { tokenName(parts[i]) : i \in positions }
        /\ \A i \in positions :
             lookup(last.out.value, tokenName(parts[i]))
               = percentDecode(segmentAt(location.pathname, i), TRUE).val

\* C14 witness: a record read from a pathname that is longer than the
\* pattern and has an escape at a token position
C14_Witness ==
  /\ last.op = "useParams"
  /\ ~last.hasArg
  /\ lastRoute.searchParamsContract = NoContract
  /\ distinctNames(last.pattern)
  /\ everyTokenSupplied
  /\ Len(split(location.pathname, "/")) > Len(split(last.pattern, "/"))
  /\ \E i \in tokenPositions(last.pattern, isToken) :
       percentDecode(segmentAt(location.pathname, i), TRUE).val
         # segmentAt(location.pathname, i)
  /\ last.out.status = "return"

\* the names of the tokens of the last call's pattern whose segment of the
\* current pathname is non-empty
suppliedTokens ==
  LET parts == split(last.pattern, "/")
  IN { tokenName(parts[i]) :
         i \in { j \in tokenPositions(last.pattern, isToken) :
                   segmentAt(location.pathname, j) # EmptyString } }

\* the record that the capability of the last call's route returns for the
\* parsed query string, empty on a route without capability
validatedQuery ==
  IF lastRoute.searchParamsContract = NoContract THEN <<>>
  ELSE searchParamsContract(lastRoute.searchParamsContract, parseSearch(location.search)).val

\* the capability of the last call's route, if any, accepts the parsed query
\* string
queryAccepted ==
  \/ lastRoute.searchParamsContract = NoContract
  \/ searchParamsContract(lastRoute.searchParamsContract, parseSearch(location.search)).ok

\* C15: in every record that useParams returns at a location whose query
\* string the capability accepts (or on a route without capability), a key
\* of fallback that neither a non-empty path segment nor the validated
\* record supplies holds fallback's value, and the keys of the record are
\* fallback's keys, the tokens with a non-empty segment and the keys of the
\* validated record.
C15_FallbackFillsTheRest ==
  (/\ last.op = "useParams"
   /\ last.out.status = "return"
   /\ queryAccepted)
  => /\ \A key \in keysOf(last.arg) \ (suppliedTokens \cup keysOf(validatedQuery)) :
          lookup(last.out.value, key) = lookup(last.arg, key)
     /\ keysOf(last.out.value)
          = keysOf(last.arg) \cup suppliedTokens \cup keysOf(validatedQuery)

\* C16: every pattern that inferRouteObject registers begins with exactly
\* one "/": none begins with "//", whatever the tree and the basename.
C16_OneLeadingSlash ==
  built => \A pattern \in DOMAIN ROUTES.routes :
             /\ startsWith(pattern, <<"/">>)
             /\ ~startsWith(pattern, <<"/", "/">>)

\* s with its run of leading "/" characters collapsed to one
normalize(s) == <<"/">> \o stripLeadingSlashes(s)

\* C17: inferRouteObject(tree, B) registers as many entries as
\* inferRouteObject(tree), and its patterns are the basename-free patterns
\* with B prepended and normalized, whether or not B begins with "/".
C17_BasenamePrepended ==
  LET free == DOMAIN inferRouteObject(routeObject, <<>>).routes
  IN built =>
       /\ Cardinality(DOMAIN ROUTES.routes) = Cardinality(free)
       /\ DOMAIN ROUTES.routes = { normalize(basename \o pattern) : pattern \in free }

\* the nodes with a path of the subtree at node, in the order of a
\* depth-first traversal in declared child order (a parent before its
\* children, a sibling's whole subtree before the next sibling), each with
\* the pattern it yields under the prefix parent and its search capability
RECURSIVE visits(_, _), visitsOf(_, _, _)
visits(node, parent) ==
  LET path == childPath(parent, node)
  IN (IF node.hasPath THEN << <<path, node.searchParams>> >> ELSE <<>>)
     \o visitsOf(node.children, 1, path)

visitsOf(children, i, parent) ==
  IF i > Len(children) THEN <<>>
  ELSE visits(children[i], parent) \o visitsOf(children, i + 1, parent)

\* the position in order of the last visit that yields pattern
lastVisit(order, pattern) ==
  CHOOSE i \in DOMAIN order :
    /\ order[i][1] = pattern
    /\ \A j \in DOMAIN order : order[j][1] = pattern => j <= i

\* C18: the entry of a pattern is the one built from the node visited last
\* among the nodes that yield the pattern: the search capability that its
\* path() and useParams() use is that node's.
C18_LastVisitWins ==
  LET order == visits(routeObject, basename)
  IN built =>
       \A pattern \in DOMAIN ROUTES.routes :
         /\ \E i \in DOMAIN order : order[i][1] = pattern
         /\ ROUTES.routes[pattern].searchParamsContract = order[lastVisit(order, pattern)][2]

\* C18 witness: a map built from a tree in which two nodes with different
\* search capabilities yield the same registered pattern
C18_Witness ==
  LET order == visits(routeObject, basename)
  IN /\ built
     /\ \E i, j \in DOMAIN order :
          /\ i < j
          /\ order[i][1] = order[j][1]
          /\ order[i][2] # order[j][2]
          /\ order[i][1] \in DOMAIN ROUTES.routes

\* the operations that are calls on an entry of the map
EntryCalls == {"get", "useParams", "navigate"}

\* C19: after createRouter or bindRouter every pattern entry has the
\* navigate function of that router, and a call navigate(params, opts)
\* invokes the router's navigate exactly once, with what path(params)
\* returns and opts, when path(params) returns, and not at all when
\* path(params) throws, in which case the caller gets that error.
C19_NavigateForwardsOnce ==
  [][/\ last'.op \in {"createRouter", "bindRouter"} =>
          \A pattern \in DOMAIN ROUTES'.routes :
            ROUTES'.routes[pattern].navigate = last'.router
     /\ last'.op = "navigate" =>
          LET route == ROUTES.routes[last'.pattern]
              path == get(route, last'.hasArg, last'.arg)
          IN IF path.status = "return"
             THEN /\ last'.out.status = "return"
                  /\ navigated' = Append(navigated, [router |-> route.navigate,
                                                      url |-> path.value,
                                                      opts |-> last'.opts])
             ELSE /\ last'.out.status = "throw"
                  /\ last'.out.error = path.error
                  /\ navigated' = navigated]_vars

\* C19 witness: a navigation with options that reached the router, on a
\* route with search capability
C19_Witness ==
  /\ last.op = "navigate"
  /\ last.out.status = "return"
  /\ last.opts.given
  /\ lastRoute.searchParamsContract # NoContract
  /\ Len(navigated) = 1
  /\ navigated[1].router = lastRoute.navigate
  /\ navigated[1].opts = last.opts

\* the step is a call with the operation, entry, arguments, options and
\* location of the call before it
sameCallAgain ==
  /\ last'.op = last.op
  /\ last'.pattern = last.pattern
  /\ last'.hasArg = last.hasArg
  /\ last'.arg = last.arg
  /\ last'.opts = last.opts
  /\ location' = location

C21_BuildKeepsSegmentCount ==
  (/\ last.op = "get"
   /\ last.hasArg
   /\ last.out.status = "return")
  => Len(split(beforeQuery(last.out.value), "/")) = Len(split(last.pattern, "/"))

\* C22: every path that build returns has a non-empty segment at the
\* position of every required token, whatever params holds and also when
\* params is omitted.
C22_RequiredSegmentsNonEmpty ==
  (last.op = "get" /\ last.out.status = "return")
  => \A i \in tokenPositions(last.pattern, isRequiredToken) :
       segmentAt(beforeQuery(last.out.value), i) # EmptyString

\* C23: when the capability rejects the parsed query string and then
\* fallback, useParams throws one error that carries both failures: the
\* rejection of the query string and the rejection of fallback.
C23_ComposedErrorCarriesBoth ==
  LET ofFallback == searchParamsContract(lastRoute.searchParamsContract, last.arg)
      causes == last.out.error.cause
  IN (queryRejected /\ last.hasArg /\ ~ofFallback.ok)
     => /\ last.out.status = "throw"
        /\ Len(causes) = 2
        /\ \E i \in DOMAIN causes :
             causes[i] = ValidationError(parseSearch(location.search)).cause[1]
        /\ \E i \in DOMAIN causes : causes[i] = ValidationError(last.arg).cause[1]

\* the names of the tokens of the last call's pattern
tokenNames ==
  LET parts == split(last.pattern, "/")
  IN { tokenName(parts[i]) : i \in tokenPositions(last.pattern, isToken) }

C25_OnlyTwoErrorKinds ==
  (last.op = "useParams" /\ last.out.status = "throw")
  => last.out.error.kind \in { "Missing parameter", "Validation",
                               "Invalid search parameters and fallback" }

\* the routers that the navigate of entry would invoke, over every params
\* bag and every options value
routersInvoked(entry) ==
  UNION { { sent[i].router : i \in DOMAIN sent } :
            sent \in { navigate(entry, hasParams, params, opts).sent :
                         hasParams \in BOOLEAN, params \in ParamsSet,
                         opts \in OptionsSet } }

\* the invocations of a router's navigate made by the step
newlyNavigated == SubSeq(navigated', Len(navigated) + 1, Len(navigated'))

\* C26: bindRouter(router, routes) writes navigate on the entries of the
\* routes object itself and leaves the rest of it as it was; whatever
\* router the entries were bound to before, navigate on every entry then
\* invokes the navigate of the router bound last and of no other, and so
\* does every later navigate call.
C26_LastBoundRouterOnly ==
  [][/\ last'.op = "bindRouter" =>
          /\ DOMAIN ROUTES'.routes = DOMAIN ROUTES.routes
          /\ ROUTES'.routeObject = ROUTES.routeObject
          /\ \A pattern \in DOMAIN ROUTES.routes :
               /\ ROUTES'.routes[pattern]
                    = [ROUTES.routes[pattern] EXCEPT !.navigate = last'.router]
               /\ routersInvoked(ROUTES'.routes[pattern]) \subseteq {last'.router}
     /\ last'.op = "navigate" =>
          \A i \in DOMAIN newlyNavigated :
            /\ newlyNavigated[i].router = ROUTES.routes[last'.pattern].navigate
            /\ \A pattern \in DOMAIN ROUTES.routes :
                 ROUTES.routes[pattern].navigate = newlyNavigated[i].router]_vars

\* C26 witness: entries bound to r1 whose navigate reached r1, then bound to
\* r2
C26_Witness ==
  /\ last.op = "bindRouter"
  /\ last.router = "r2"
  /\ Len(navigated) = 1
  /\ navigated[1].router = "r1"
  /\ \A pattern \in DOMAIN ROUTES.routes :
       /\ ROUTES.routes[pattern].navigate = "r2"
       /\ routersInvoked(ROUTES.routes[pattern]) = {"r2"}

\* some static segment of the last call's pattern is not the segment of the
\* current pathname at its position
staticDiffers ==
  LET parts == split(last.pattern, "/")
  IN \E i \in DOMAIN parts :
       /\ ~isToken(parts[i])
       /\ segmentAt(location.pathname, i) # parts[i]

\* the last of the positions of the last call's pattern whose token has the
\* name
lastPositionOf(name) ==
  LET parts == split(last.pattern, "/")
      positions == { i \in tokenPositions(last.pattern, isToken) :
                       tokenName(parts[i]) = name }
  IN CHOOSE i \in positions : \A j \in positions : j <= i

\* C27: at a pathname whose static segments differ from the pattern's while
\* its segment at every token position is non-empty (and validly encoded),
\* and with a query string that the capability, if any, accepts, useParams
\* returns a record, and for every token name that the validated record does
\* not supply the record holds the decoded segment at the token's position.
C27_StaticSegmentsNotCompared ==
  (/\ last.op = "useParams"
   /\ everyTokenSupplied
   /\ queryAccepted
   /\ staticDiffers)
  => /\ last.out.status = "return"
     /\ \A name \in tokenNames \ keysOf(validatedQuery) :
          lookup(last.out.value, name)
            = percentDecode(segmentAt(location.pathname, lastPositionOf(name)), TRUE).val

\* C27 witness: a record read through a pattern with tokens at a pathname
\* none of whose static segments is the pattern's
C27_Witness ==
  /\ last.op = "useParams"
  /\ everyTokenSupplied
  /\ queryAccepted
  /\ tokenNames # {}
  /\ LET parts == split(last.pattern, "/")
     IN /\ \E i \in DOMAIN parts : i > 1 /\ ~isToken(parts[i])
        /\ \A i \in DOMAIN parts :
             (i > 1 /\ ~isToken(parts[i])) => segmentAt(location.pathname, i) # parts[i]
  /\ last.out.status = "return"
  /\ \E name \in tokenNames : lookup(last.out.value, name) # undefined

====
